---- MODULE Spec2Model ----
(***************************************************************************)
(* Model of FacesheetParser (src/main.py): name_parser, the label/value    *)
(* extractors extract_name, extract_visit_id, extract_mr_id, extract_field *)
(* and the extraction part of main().                                      *)
(*                                                                         *)
(* A Python str is a sequence of one-character strings.  A Python call     *)
(* either returns a value or raises; a call's outcome is the record        *)
(* [exc |-> "none" or the exception's name, ret |-> value or NoValue].     *)
(***************************************************************************)
EXTENDS Integers, Sequences, FiniteSets, TLC

VARIABLES text, parsed, data, data0, pc, field, name_out, visit_out, mr_out, field_out

vars == <<text, parsed, data, data0, pc, field, name_out, visit_out, mr_out, field_out>>

parserVars == <<text, parsed>>

mainVars == <<data, data0, pc, field, name_out, visit_out, mr_out, field_out>>

(***************************************************************************)
(* Bounds                                                                  *)
(***************************************************************************)
\* longest text handed to name_parser in ParserSpec
MaxLen == 5

\* largest number of OCR entries in data in Spec
MaxTokens == 3

(***************************************************************************)
(* Python str primitives                                                   *)
(***************************************************************************)
UpperCase == <<"A","B","C","D","E","F","G","H","I","J","K","L","M",
               "N","O","P","Q","R","S","T","U","V","W","X","Y","Z">>

LowerCase == <<"a","b","c","d","e","f","g","h","i","j","k","l","m",
               "n","o","p","q","r","s","t","u","v","w","x","y","z">>

\* the characters str.strip() removes (of those the model's texts can hold)
Whitespace == {" ", "\t", "\n", "\r", "\f"}

\* the lowercase letter of every uppercase letter
ToLower ==
    [c \in {UpperCase[k] : k \in 1..Len(UpperCase)} |->
        LowerCase[CHOOSE k \in 1..Len(UpperCase) : UpperCase[k] = c]]

LowerChar(c) == IF c \in DOMAIN ToLower THEN ToLower[c] ELSE c

\* str.lower()
Lower(s) == [k \in 1..Len(s) |-> LowerChar(s[k])]

\* str.startswith(prefix)
StartsWith(s, prefix) ==
    /\ Len(prefix) <= Len(s)
    /\ \A k \in 1..Len(prefix) : s[k] = prefix[k]

\* c in s, for a one-character c
Contains(s, c) == \E k \in 1..Len(s) : s[k] = c

RECURSIVE Split(_, _)
\* str.split(sep) for a one-character sep: every occurrence splits, empty
\* pieces are kept, and a string without sep (the empty one too) is one piece
Split(s, sep) ==
    IF ~Contains(s, sep) THEN <<s>>
    ELSE LET k == CHOOSE j \in 1..Len(s) :
                      s[j] = sep /\ \A m \in 1..(j - 1) : s[m] # sep
         IN <<SubSeq(s, 1, k - 1)>> \o Split(SubSeq(s, k + 1, Len(s)), sep)

\* str.strip()
Strip(s) ==
    IF \A k \in 1..Len(s) : s[k] \in Whitespace THEN <<>>
    ELSE LET lo == CHOOSE j \in 1..Len(s) :
                       s[j] \notin Whitespace /\ \A m \in 1..(j - 1) : s[m] \in Whitespace
             hi == CHOOSE j \in 1..Len(s) :
                       s[j] \notin Whitespace /\ \A m \in (j + 1)..Len(s) : s[m] \in Whitespace
         IN SubSeq(s, lo, hi)

RECURSIVE Join(_, _)
\* sep.join(strs)
Join(sep, strs) ==
    IF Len(strs) = 0 THEN <<>>
    ELSE IF Len(strs) = 1 THEN strs[1]
    ELSE strs[1] \o sep \o Join(sep, Tail(strs))

(***************************************************************************)
(* Outcome of a call                                                       *)
(***************************************************************************)
NoValue == <<"no value">>

Return(v) == [exc |-> "none", ret |-> v]

Raise(e) == [exc |-> e, ret |-> NoValue]

(***************************************************************************)
(* name_parser                                                             *)
(***************************************************************************)
\* variant: the names are returned as they are
ReturnNamesUnstripped(first_name, middle_name, last_name) ==
    IF last_name = NoValue THEN Raise("AttributeError")
    ELSE Return(<<first_name, middle_name, last_name>>)

\* the return statement: each of the three names is stripped in turn;
\* last_name is None on the malformed comma path, and None has no strip()
ReturnNames(first_name, middle_name, last_name) ==
    IF last_name = NoValue THEN Raise("AttributeError")
    ELSE Return(<<Strip(first_name), Strip(middle_name), Strip(last_name)>>)

name_parser(t) ==
    IF Contains(t, ",")
    THEN LET halves == Split(t, ",") IN
         IF Len(halves) # 2 THEN Raise("ValueError")
         ELSE LET last_name == halves[1]
                  remaining_part == halves[2]
                  name_parts == Split(Strip(remaining_part), " ")
              IN IF Len(name_parts) = 2
                 THEN ReturnNames(name_parts[1], name_parts[2], last_name)
                 ELSE IF Len(name_parts) = 1
                 THEN ReturnNames(name_parts[1], <<>>, last_name)
                 ELSE ReturnNames(last_name, <<>>, NoValue)
    ELSE LET name_parts == Split(t, " ") IN
         IF Len(name_parts) = 3
         THEN ReturnNames(name_parts[1], name_parts[2], name_parts[3])
         ELSE IF Len(name_parts) = 2
         THEN ReturnNames(name_parts[1], name_parts[2], <<>>)
         ELSE IF Len(name_parts) = 1
         THEN ReturnNames(name_parts[1], <<>>, <<>>)
         ELSE ReturnNames(<<>>, <<>>, <<>>)

(***************************************************************************)
(* The OCR result: pytesseract's dictionary of index-aligned arrays        *)
(***************************************************************************)
\* data of the entries toks, in stream order
MkData(toks) ==
    [level  |-> [p \in 1..Len(toks) |-> 5],
     text   |-> [p \in 1..Len(toks) |-> toks[p].text],
     left   |-> [p \in 1..Len(toks) |-> toks[p].left],
     top    |-> [p \in 1..Len(toks) |-> toks[p].top],
     width  |-> [p \in 1..Len(toks) |-> toks[p].width],
     height |-> [p \in 1..Len(toks) |-> toks[p].height],
     conf   |-> [p \in 1..Len(toks) |-> toks[p].conf]]

num_points(d) == Len(d.level)

\* x, y, w, h = data["left"][point], data["top"][point], ...
Box(d, point) == <<d.left[point], d.top[point], d.width[point], d.height[point]>>

abs(n) == IF n < 0 THEN -n ELSE n

(***************************************************************************)
(* First loop of every extractor: the label                                *)
(***************************************************************************)
\* variant: the loop has no break, the last matching point wins
LabelPointLast(prefix, d) ==
    IF \E p \in 1..num_points(d) : StartsWith(Lower(d.text[p]), prefix)
    THEN CHOOSE p \in 1..num_points(d) :
             /\ StartsWith(Lower(d.text[p]), prefix)
             /\ \A q \in (p + 1)..num_points(d) : ~StartsWith(Lower(d.text[q]), prefix)
    ELSE 0

\* variant: target_box starts out as the first entry instead of None
LabelPointDefault(prefix, d) ==
    IF \E p \in 1..num_points(d) : StartsWith(Lower(d.text[p]), prefix)
    THEN CHOOSE p \in 1..num_points(d) :
             /\ StartsWith(Lower(d.text[p]), prefix)
             /\ \A q \in 1..(p - 1) : ~StartsWith(Lower(d.text[q]), prefix)
    ELSE IF num_points(d) > 0 THEN 1 ELSE 0

\* the point at which the loop breaks, 0 when it runs to the end (target_box
\* and field_label stay None); prefix is the lowercased label
LabelPoint(prefix, d) ==
    IF \E p \in 1..num_points(d) : StartsWith(Lower(d.text[p]), prefix)
    THEN CHOOSE p \in 1..num_points(d) :
             /\ StartsWith(Lower(d.text[p]), prefix)
             /\ \A q \in 1..(p - 1) : ~StartsWith(Lower(d.text[q]), prefix)
    ELSE 0

(***************************************************************************)
(* Second loop: the candidates                                             *)
(***************************************************************************)
\* the condition of extract_name (no colon test)
NameCandidate(d, point, target, field_width) ==
    /\ abs(d.top[point] - d.top[target]) < 10
    /\ d.text[point] # d.text[target]
    /\ 0 < d.left[point] - d.left[target]
    /\ d.left[point] - d.left[target] < field_width

\* variant: the colon test is left out
FieldCandidateNoColon(d, point, target, field_width) ==
    /\ abs(d.top[point] - d.top[target]) < 10
    /\ d.text[point] # d.text[target]
    /\ 0 < d.left[point] - d.left[target]
    /\ d.left[point] - d.left[target] < field_width

\* variant: entries read with a confidence under 10 are passed over
FieldCandidateConfident(d, point, target, field_width) ==
    /\ d.conf[point] >= 10
    /\ abs(d.top[point] - d.top[target]) < 10
    /\ d.text[point] # d.text[target]
    /\ ~Contains(d.text[point], ":")
    /\ 0 < d.left[point] - d.left[target]
    /\ d.left[point] - d.left[target] < field_width

\* the condition of extract_visit_id, extract_mr_id and extract_field
FieldCandidate(d, point, target, field_width) ==
    /\ abs(d.top[point] - d.top[target]) < 10
    /\ d.text[point] # d.text[target]
    /\ ~Contains(d.text[point], ":")
    /\ 0 < d.left[point] - d.left[target]
    /\ d.left[point] - d.left[target] < field_width

\* candidate_boxes.append((text, (x, y, w, h))); point records where the
\* entry came from
Entry(d, point) == [point |-> point, text |-> d.text[point], box |-> Box(d, point)]

RECURSIVE Scan(_, _, _)
\* the entries appended while point runs over from..num_points(d), keep being
\* the set of points that pass the condition
Scan(d, keep, from) ==
    IF from > num_points(d) THEN <<>>
    ELSE (IF from \in keep THEN <<Entry(d, from)>> ELSE <<>>) \o Scan(d, keep, from + 1)

\* candidate_boxes of extract_name before sorting; `if target_box:` tests a
\* 4-tuple, which is true whenever a label was found
name_candidate_boxes(target, field_width, d) ==
    IF target = 0 THEN <<>>
    ELSE Scan(d, {p \in 1..num_points(d) : NameCandidate(d, p, target, field_width)}, 1)

\* candidate_boxes of the three other extractors before sorting
candidate_boxes(target, field_width, d) ==
    IF target = 0 THEN <<>>
    ELSE Scan(d, {p \in 1..num_points(d) : FieldCandidate(d, p, target, field_width)}, 1)

(***************************************************************************)
(* sorted(candidate_boxes, key=lambda x: x[1][0]) and the join             *)
(***************************************************************************)
RECURSIVE InsertByX(_, _)
\* e goes after every entry whose x is not larger: the sort is stable
InsertByX(e, s) ==
    IF Len(s) = 0 THEN <<e>>
    ELSE IF e.box[1] < s[1].box[1] THEN <<e>> \o s
    ELSE <<s[1]>> \o InsertByX(e, Tail(s))

\* variant: the list is joined as collected
unsorted(c) == c

RECURSIVE sorted(_)
sorted(c) ==
    IF Len(c) = 0 THEN <<>>
    ELSE InsertByX(c[Len(c)], sorted(SubSeq(c, 1, Len(c) - 1)))

\* " ".join(x[0] for x in candidate_boxes)
field_value(c) == Join(<<" ">>, [k \in 1..Len(c) |-> c[k].text])

(***************************************************************************)
(* The extractors                                                          *)
(***************************************************************************)
name_prefix == <<"n","a","m","e">>

visit_prefix == <<"v","i","s","i","t">>

mr_prefix == <<"m","r">>

\* the locals of an extractor when it returns
Locals(target, c) ==
    [target |-> target, candidate_boxes |-> c, field_value |-> field_value(c)]

extract_name_locals(d) ==
    LET target == LabelPoint(name_prefix, d)
    IN Locals(target, sorted(name_candidate_boxes(target, 500, d)))

extract_name(d) == name_parser(extract_name_locals(d).field_value)

extract_visit_id_locals(d) ==
    LET target == LabelPoint(visit_prefix, d)
    IN Locals(target, sorted(candidate_boxes(target, 100, d)))

extract_visit_id(d) == extract_visit_id_locals(d).field_value

extract_mr_id_locals(d) ==
    LET target == LabelPoint(mr_prefix, d)
    IN Locals(target, sorted(candidate_boxes(target, 100, d)))

extract_mr_id(d) == extract_mr_id_locals(d).field_value

extract_field_locals(label, field_width, d) ==
    LET target == LabelPoint(Lower(label), d)
    IN Locals(target, sorted(candidate_boxes(target, field_width, d)))

extract_field(label, field_width, d) == extract_field_locals(label, field_width, d).field_value

\* variant: the entries taken as candidates are removed from data
DataAfterConsuming(d, c) ==
    LET used == {c[k].point : k \in 1..Len(c)}
        kept == SelectSeq([p \in 1..num_points(d) |-> p], LAMBDA p : p \notin used)
    IN [level  |-> [k \in 1..Len(kept) |-> d.level[kept[k]]],
        text   |-> [k \in 1..Len(kept) |-> d.text[kept[k]]],
        left   |-> [k \in 1..Len(kept) |-> d.left[kept[k]]],
        top    |-> [k \in 1..Len(kept) |-> d.top[kept[k]]],
        width  |-> [k \in 1..Len(kept) |-> d.width[kept[k]]],
        height |-> [k \in 1..Len(kept) |-> d.height[kept[k]]],
        conf   |-> [k \in 1..Len(kept) |-> d.conf[kept[k]]]]

\* data after an extractor returned: the loops only read data, and the
\* candidates are copied into a list of the extractor's own
DataAfter(d, c) == d

(***************************************************************************)
(* main(), from the OCR result on (DEBUG = 0)                              *)
(***************************************************************************)
fields ==
    << [label |-> <<"N","a","m","e">>, field_width |-> 500],
       [label |-> <<"V","i","s","i","t">>, field_width |-> 100],
       [label |-> <<"M","R">>, field_width |-> 100],
       [label |-> <<"B","i","r","t","h","D","a","t","e">>, field_width |-> 200],
       [label |-> <<"A","g","e">>, field_width |-> 100],
       [label |-> <<"G","e","n","d","e","r">>, field_width |-> 150],
       [label |-> <<"S","S","N">>, field_width |-> 100] >>

NotCalled == [exc |-> "not called", ret |-> NoValue]

\* print("Name: ", extract_name(image, data)); an exception ends the program
PrintName ==
    /\ pc = "name"
    /\ name_out' = extract_name(data)
    /\ data' = DataAfter(data, extract_name_locals(data).candidate_boxes)
    /\ pc' = IF name_out'.exc = "none" THEN "visit" ELSE "crashed"
    /\ UNCHANGED <<data0, field, visit_out, mr_out, field_out, parserVars>>

\* print("Visit ID: ", extract_visit_id(image, data))
PrintVisitId ==
    /\ pc = "visit"
    /\ visit_out' = Return(extract_visit_id(data))
    /\ data' = DataAfter(data, extract_visit_id_locals(data).candidate_boxes)
    /\ pc' = "mr"
    /\ UNCHANGED <<data0, field, name_out, mr_out, field_out, parserVars>>

\* print("MR ID: ", extract_mr_id(image, data))
PrintMrId ==
    /\ pc = "mr"
    /\ mr_out' = Return(extract_mr_id(data))
    /\ data' = DataAfter(data, extract_mr_id_locals(data).candidate_boxes)
    /\ pc' = "fields"
    /\ UNCHANGED <<data0, field, name_out, visit_out, field_out, parserVars>>

\* one round of `for label, field_width in fields`; field_out keeps what was
\* printed together with the locals of the call
PrintField ==
    /\ pc = "fields"
    /\ field <= Len(fields)
    /\ LET f == fields[field]
           l == extract_field_locals(f.label, f.field_width, data)
       IN /\ field_out' = Append(field_out,
                 [label |-> f.label, field_width |-> f.field_width,
                  target |-> l.target, candidate_boxes |-> l.candidate_boxes,
                  field_value |-> extract_field(f.label, f.field_width, data)])
          /\ data' = DataAfter(data, l.candidate_boxes)
    /\ field' = field + 1
    /\ UNCHANGED <<data0, pc, name_out, visit_out, mr_out, parserVars>>

\* the loop over fields is exhausted; `break` leaves the loop over images
Finish ==
    /\ pc = "fields"
    /\ field > Len(fields)
    /\ pc' = "done"
    /\ UNCHANGED <<data, data0, field, name_out, visit_out, mr_out, field_out, parserVars>>

(***************************************************************************)
(* The OCR results explored                                                *)
(***************************************************************************)
Texts ==
    { <<"N","a","m","e">>,
      <<"v","i","s","i","t","o","r",":">>,
      <<"J",",">> }

\* where an entry lies and how well it was read: left, top, width, height, conf
Places ==
    { [left |-> 0,   top |-> 0,  width |-> 0,  height |-> 0,  conf |-> 95],
      [left |-> 40,  top |-> 0,  width |-> 30, height |-> 12, conf |-> 5],
      [left |-> 40,  top |-> 10, width |-> 30, height |-> 12, conf |-> 95],
      [left |-> 90,  top |-> 9,  width |-> 30, height |-> 12, conf |-> 95],
      [left |-> 140, top |-> 0,  width |-> 30, height |-> 12, conf |-> 95] }

Tokens ==
    { [text |-> t, left |-> b.left, top |-> b.top,
       width |-> b.width, height |-> b.height, conf |-> b.conf] :
      t \in Texts, b \in Places }

TokenStreams == UNION { [1..n -> Tokens] : n \in 0..MaxTokens }

Init ==
    /\ data \in { MkData(toks) : toks \in TokenStreams }
    /\ data0 = data
    /\ pc = "name"
    /\ field = 1
    /\ name_out = NotCalled
    /\ visit_out = NotCalled
    /\ mr_out = NotCalled
    /\ field_out = <<>>
    /\ text = <<>>
    /\ parsed = NotCalled

Next == PrintName \/ PrintVisitId \/ PrintMrId \/ PrintField \/ Finish

Spec == Init /\ [][Next]_vars

(***************************************************************************)
(* main() on the OCR results whose entries all lie on the first line,      *)
(* within 100 of the left edge                                             *)
(***************************************************************************)
LineTokens == { t \in Tokens : t.top < 10 /\ t.left < 100 }

LineStreams == UNION { [1..n -> LineTokens] : n \in 0..MaxTokens }

LineInit ==
    /\ data \in { MkData(toks) : toks \in LineStreams }
    /\ data0 = data
    /\ pc = "name"
    /\ field = 1
    /\ name_out = NotCalled
    /\ visit_out = NotCalled
    /\ mr_out = NotCalled
    /\ field_out = <<>>
    /\ text = <<>>
    /\ parsed = NotCalled

LineSpec == LineInit /\ [][Next]_vars

(***************************************************************************)
(* name_parser on its own                                                  *)
(***************************************************************************)
Alphabet == {"a", "b", " ", ",", "\t"}

Strings == UNION { [1..n -> Alphabet] : n \in 0..MaxLen }

ParserInit ==
    /\ text \in Strings
    /\ parsed = NotCalled
    /\ data = MkData(<<>>)
    /\ data0 = data
    /\ pc = "parser"
    /\ field = 1
    /\ name_out = NotCalled
    /\ visit_out = NotCalled
    /\ mr_out = NotCalled
    /\ field_out = <<>>

CallNameParser ==
    /\ pc = "parser"
    /\ parsed = NotCalled
    /\ parsed' = name_parser(text)
    /\ UNCHANGED <<text, mainVars>>

ParserNext == CallNameParser

ParserSpec == ParserInit /\ [][ParserNext]_vars

(***************************************************************************)
(* Properties of name_parser (checked under ParserSpec)                    *)
(***************************************************************************)
Called == parsed # NotCalled

IsStr(v) == v \in Seq(Alphabet \cup {":"})

\* the text before the first comma of t, and the text after it
BeforeComma(t) ==
    SubSeq(t, 1, (CHOOSE j \in 1..Len(t) : t[j] = "," /\ \A m \in 1..(j - 1) : t[m] # ",") - 1)

AfterComma(t) ==
    SubSeq(t, (CHOOSE j \in 1..Len(t) : t[j] = "," /\ \A m \in 1..(j - 1) : t[m] # ",") + 1, Len(t))

\* v has no whitespace at either end
Trimmed(v) == Len(v) > 0 => (v[1] \notin Whitespace /\ v[Len(v)] \notin Whitespace)

\* C1: name_parser never fails: for every input it returns a triple of
\* strings (an absent component being the empty string) and raises nothing.
C1_NeverFails ==
    Called => /\ parsed.exc = "none"
              /\ Len(parsed.ret) = 3
              /\ \A k \in 1..3 : IsStr(parsed.ret[k])

\* C2: comma notation: the text is split on its first comma into last and a
\* remainder, and the remainder on spaces; 2 words give (word1, word2, last),
\* 1 word gives (word1, '', last), anything else gives (last, '', '').
C2_CommaNotation ==
    (Called /\ Contains(text, ",")) =>
        LET last == BeforeComma(text)
            words == Split(Strip(AfterComma(text)), " ")
        IN /\ parsed.exc = "none"
           /\ parsed.ret =
                IF Len(words) = 2 THEN <<Strip(words[1]), Strip(words[2]), Strip(last)>>
                ELSE IF Len(words) = 1 THEN <<Strip(words[1]), <<>>, Strip(last)>>
                ELSE <<Strip(last), <<>>, <<>> >>

\* C3: space notation: a text without comma is split on spaces; 3 words give
\* (first, middle, last), 2 give (first, middle, ''), 1 gives (first, '', ''),
\* 0 or 4 and more leave all three empty; the empty text gives ('', '', '');
\* every returned component is whitespace-trimmed.
C3_SpaceNotation ==
    (Called /\ ~Contains(text, ",")) =>
        LET words == Split(text, " ")
        IN /\ parsed.exc = "none"
           /\ Len(parsed.ret) = 3
           /\ Len(words) = 3 => \A k \in 1..3 : parsed.ret[k] = Strip(words[k])
           /\ Len(words) = 2 => /\ \A k \in 1..2 : parsed.ret[k] = Strip(words[k])
                                /\ parsed.ret[3] = <<>>
           /\ Len(words) = 1 => parsed.ret = <<Strip(words[1]), <<>>, <<>> >>
           /\ Len(words) \notin {1, 2, 3} => parsed.ret = << <<>>, <<>>, <<>> >>
           /\ text = <<>> => parsed.ret = << <<>>, <<>>, <<>> >>
           /\ \A k \in 1..3 : Trimmed(parsed.ret[k])

\* a three-word text without comma one of whose words carries whitespace
\* that the result has lost
C3_Witness ==
    /\ Called
    /\ ~Contains(text, ",")
    /\ Len(Split(text, " ")) = 3
    /\ \E k \in 1..3 : /\ parsed.ret[k] # Split(text, " ")[k]
                       /\ parsed.ret[k] # <<>>

(***************************************************************************)
(* Properties of the extractors (checked under Spec; C7 under LineSpec)     *)
(***************************************************************************)
Rounds == 1..Len(field_out)

Points == 1..num_points(data0)

\* the points whose lowercased text starts with the lowercased label
Matching(label) ==
    { p \in Points :
        /\ Len(data0.text[p]) >= Len(label)
        /\ \A j \in 1..Len(label) : LowerChar(data0.text[p][j]) = LowerChar(label[j]) }

\* the points of the entries that made it into a round's value
ValuePoints(r) == { r.candidate_boxes[j].point : j \in 1..Len(r.candidate_boxes) }

HasColon(p) == \E j \in 1..Len(data0.text[p]) : data0.text[p][j] = ":"

OffLine(p, t) ==
    \/ data0.top[p] - data0.top[t] >= 10
    \/ data0.top[t] - data0.top[p] >= 10

OffBand(p, t, w) ==
    \/ data0.left[p] - data0.left[t] <= 0
    \/ data0.left[p] - data0.left[t] >= w

SameText(p, t) == data0.text[p] = data0.text[t]

Excluded(p, t, w) == HasColon(p) \/ OffLine(p, t) \/ OffBand(p, t, w) \/ SameText(p, t)

\* C4: the label token is the token of lowest stream index whose lowercased
\* text starts with the lowercased label; no token is chosen when none matches.
C4_FirstMatchingLabel ==
    \A k \in Rounds :
        LET r == field_out[k] IN
        /\ Matching(r.label) = {} => r.target = 0
        /\ Matching(r.label) # {} =>
              /\ r.target \in Matching(r.label)
              /\ \A q \in Matching(r.label) : r.target <= q

\* two tokens match, the later one lies further left, the earlier one is
\* chosen, and its text is longer than the label (a prefix match)
C4_Witness ==
    \E k \in Rounds :
        LET r == field_out[k] IN
        /\ r.target # 0
        /\ Len(data0.text[r.target]) > Len(r.label)
        /\ \E q \in Matching(r.label) :
              q > r.target /\ data0.left[q] < data0.left[r.target]

\* C5: the value is made of exactly the tokens that have no colon, lie less
\* than 10 above or below the label, lie right of it by more than 0 and less
\* than the distance bound, and differ in text from the label token; the label
\* token is never part of its own value.
C5_ValueTokens ==
    \A k \in Rounds :
        LET r == field_out[k] IN
        /\ r.target = 0 => ValuePoints(r) = {}
        /\ r.target # 0 =>
              /\ \A p \in Points : p \in ValuePoints(r) <=> ~Excluded(p, r.target, r.field_width)
              /\ r.target \notin ValuePoints(r)
        /\ Len(r.candidate_boxes) = Cardinality(ValuePoints(r))
        /\ r.field_value = Join(<<" ">>, [j \in 1..Len(r.candidate_boxes) |-> data0.text[r.candidate_boxes[j].point]])

\* a round whose value has a token while a colon-bearing token on the same
\* line and within the band was left out
C5_Witness ==
    \E k \in Rounds :
        LET r == field_out[k] IN
        /\ r.target # 0
        /\ ValuePoints(r) # {}
        /\ \E p \in Points :
              /\ HasColon(p)
              /\ ~OffLine(p, r.target) /\ ~OffBand(p, r.target, r.field_width)
              /\ ~SameText(p, r.target)
              /\ p \notin ValuePoints(r)

\* C6 as stated: no token with confidence below min_confidence (10.0) is part
\* of a value, while the label may have any confidence.
C6_ConfidenceFloor ==
    \A k \in Rounds : \A p \in ValuePoints(field_out[k]) : data0.conf[p] >= 10

\* C6 amended: confidence is not looked at: a token with confidence below 10
\* is part of the value whenever it passes the text and geometry tests, and a
\* token with confidence below 10 is chosen as the label when it is the first
\* match.
C6_ConfidenceIgnored ==
    \A k \in Rounds :
        LET r == field_out[k] IN
        /\ r.target # 0 =>
              \A p \in Points :
                  (data0.conf[p] < 10 /\ ~Excluded(p, r.target, r.field_width))
                      => p \in ValuePoints(r)
        /\ \A p \in Matching(r.label) :
              (data0.conf[p] < 10 /\ \A q \in Matching(r.label) : p <= q) => r.target = p

\* a token of confidence 5 is part of one value, and a token of confidence 5
\* is the label of a round
C6_Witness ==
    /\ \E k \in Rounds : \E p \in ValuePoints(field_out[k]) : data0.conf[p] < 10
    /\ \E k \in Rounds : field_out[k].target # 0 /\ data0.conf[field_out[k].target] < 10

\* the rearrangements of n entries
Rearrangements(n) == { f \in [1..n -> 1..n] : \A p \in 1..n : \E q \in 1..n : f[q] = p }

RearrangementsUpTo == [n \in 0..MaxTokens |-> Rearrangements(n)]

\* the orders in which the entries of data0 can arrive
Orders == RearrangementsUpTo[num_points(data0)]

\* data0 with its entries rearranged: entry k is the former entry f[k]
Rearranged(f) ==
    [level  |-> [k \in Points |-> data0.level[f[k]]],
     text   |-> [k \in Points |-> data0.text[f[k]]],
     left   |-> [k \in Points |-> data0.left[f[k]]],
     top    |-> [k \in Points |-> data0.top[f[k]]],
     width  |-> [k \in Points |-> data0.width[f[k]]],
     height |-> [k \in Points |-> data0.height[f[k]]],
     conf   |-> [k \in Points |-> data0.conf[f[k]]]]

\* the rearrangement leaves round r with the label token it had
SameLabelToken(r, f) ==
    LET t == LabelPoint(Lower(r.label), Rearranged(f))
    IN IF r.target = 0 THEN t = 0 ELSE t # 0 /\ f[t] = r.target

AscendingX(c) == \A j \in 1..(Len(c) - 1) : c[j].box[1] <= c[j + 1].box[1]

SingleSpaced(r) ==
    IF Len(r.candidate_boxes) = 0 THEN r.field_value = <<>>
    ELSE Split(r.field_value, " ") = [j \in 1..Len(r.candidate_boxes) |-> r.candidate_boxes[j].text]

DistinctX(c) == \A i, j \in 1..Len(c) : i # j => c[i].box[1] # c[j].box[1]

\* if the rearrangement keeps r's label token, it keeps r's value
SameValue(r, f) ==
    SameLabelToken(r, f) =>
        extract_field(r.label, r.field_width, Rearranged(f)) = r.field_value

\* C7 as stated: the value's tokens are in ascending x, joined by single
\* spaces, and the value is the same for every order of the input that keeps
\* the label token, tokens of equal x included.
C7_AnyOrderSameValue ==
    /\ \A k \in Rounds :
          AscendingX(field_out[k].candidate_boxes) /\ SingleSpaced(field_out[k])
    /\ pc = "done" => \A k \in Rounds : \A f \in Orders : SameValue(field_out[k], f)

\* C7 amended: the value's tokens are in ascending x, joined by single
\* spaces; tokens of equal x keep their stream order; and the value is the
\* same for every order of the input that keeps the label token provided no
\* two tokens of the value have the same x.
C7_OrderByXStable ==
    /\ \A k \in Rounds :
          LET c == field_out[k].candidate_boxes IN
          /\ AscendingX(c)
          /\ SingleSpaced(field_out[k])
          /\ \A i, j \in 1..Len(c) :
                (i < j /\ c[i].box[1] = c[j].box[1]) => c[i].point < c[j].point
    /\ pc = "done" =>
          \A k \in Rounds :
              DistinctX(field_out[k].candidate_boxes) =>
                  \A f \in Orders : SameValue(field_out[k], f)

\* a value of two tokens that arrived right to left
C7_Witness ==
    \E k \in Rounds :
        LET c == field_out[k].candidate_boxes IN
        /\ Len(c) = 2
        /\ c[1].box[1] < c[2].box[1]
        /\ c[1].point > c[2].point
        /\ c[1].text # c[2].text

\* C8: when no token matches the label, or one matches but no token passes
\* the tests, the value is the empty string, nothing is raised, and the
\* rounds for the remaining fields are still made.
C8_AbsenceIsEmpty ==
    /\ \A k \in Rounds :
          LET r == field_out[k]
              t == CHOOSE p \in Matching(r.label) : \A q \in Matching(r.label) : p <= q
          IN /\ Matching(r.label) = {} => r.field_value = <<>>
             /\ (Matching(r.label) # {} /\ \A p \in Points : Excluded(p, t, r.field_width))
                    => r.field_value = <<>>
    /\ pc = "fields" => Len(field_out) = field - 1
    /\ pc = "done" => Len(field_out) = Len(fields)
    /\ pc \in {"fields", "done"} => visit_out.exc = "none" /\ mr_out.exc = "none"

\* all rounds are made; the Name label sits at box (0, 0, 0, 0) and has an
\* empty value although there are other tokens, and no token matches BirthDate
C8_Witness ==
    /\ pc = "done"
    /\ field_out[1].target # 0
    /\ field_out[1].field_value = <<>>
    /\ Box(data0, field_out[1].target) = <<0, 0, 0, 0>>
    /\ num_points(data0) = MaxTokens
    /\ field_out[4].target = 0
    /\ field_out[4].field_value = <<>>

\* C9: the extractors leave data as it was, every value is what its extractor
\* gives on the untouched input whatever was extracted before, and an
\* extraction made a second time gives the same value.
C9_Stateless ==
    /\ data = data0
    /\ name_out # NotCalled => name_out = extract_name(data0)
    /\ visit_out # NotCalled => visit_out.ret = extract_visit_id(data0)
    /\ mr_out # NotCalled => mr_out.ret = extract_mr_id(data0)
    /\ \A k \in Rounds :
          field_out[k].field_value = extract_field(fields[k].label, fields[k].field_width, data0)
    /\ Len(field_out) >= 2 => field_out[2].field_value = visit_out.ret
    /\ Len(field_out) >= 3 => field_out[3].field_value = mr_out.ret

\* one token is part of the values of two fields
C9_Witness ==
    /\ pc = "done"
    /\ \E p \in Points : p \in ValuePoints(field_out[1]) /\ p \in ValuePoints(field_out[2])

\* C10: the triple of extract_name is name_parser applied to
\* extract_field('Name', 500, data).
C10_NameIsParsedField ==
    name_out # NotCalled => name_out = name_parser(extract_field(fields[1].label, 500, data0))

====
